---- MODULE Spec2Model ----
(***************************************************************************)
(* Field calculators for circular current loops: the single N-turn coil    *)
(* (src/js/single_coil.js) and the Helmholtz pair (src/unnamed/part_000).  *)
(*                                                                         *)
(* Numbers.  The code computes in IEEE-754 binary64.  The model computes   *)
(* in the same kind of arithmetic with a significand of Prec bits instead  *)
(* of 53: a number is NaN, +Infinity, -Infinity or m * 2^e with            *)
(* 2^(Prec-1) <= |m| < 2^Prec (or m = 0), and every operation rounds its   *)
(* exact result to nearest, ties to even.  The exponent is not bounded, so *)
(* overflow and underflow of finite values do not occur; the sign of zero  *)
(* is not kept.  Infinity and NaN enter through the inputs and propagate   *)
(* by the IEEE rules.                                                      *)
(***************************************************************************)
EXTENDS Integers, Sequences, FiniteSets, TLC

VARIABLES
  kePc, keM, keSt, keIter, keOut,  \* one call of ellipticKE, statement by statement
  page,   \* "sc": the single-coil page, "hh": the Helmholtz page
  form,   \* the texts of the page's seven input elements
  out,    \* textContent of the output element
  err,    \* textContent of the error element
  run,    \* what the click handler just did (NoRun after an edit)
  last    \* how the most recent click ended: "none", "ok", "rejected"

keVars == <<kePc, keM, keSt, keIter, keOut>>
uiVars == <<page, form, out, err, run, last>>
vars == <<kePc, keM, keSt, keIter, keOut, page, form, out, err, run, last>>

(* Bits of the significand (53 in the code's arithmetic). *)
Prec == 11

-----------------------------------------------------------------------------
(* Floating point *)

Fin(m, e) == [c |-> "fin", m |-> m, e |-> e]
NaN == [c |-> "nan", m |-> 0, e |-> 0]
PInf == [c |-> "inf", m |-> 1, e |-> 0]
NInf == [c |-> "inf", m |-> -1, e |-> 0]
Zero == Fin(0, 0)

IAbs(n) == IF n < 0 THEN -n ELSE n
ISgn(n) == IF n < 0 THEN -1 ELSE IF n > 0 THEN 1 ELSE 0

(* The number of bits of n, 0 <= n < 2^31. *)
BitLen4(n) == IF n < 2 THEN n ELSE IF n < 4 THEN 2 ELSE IF n < 8 THEN 3 ELSE 4
BitLen8(n) == IF n < 16 THEN BitLen4(n) ELSE 4 + BitLen4(n \div 16)
BitLen16(n) == (IF n < 256 THEN 0 ELSE 8) + BitLen8(IF n < 256 THEN n ELSE n \div 256)
BitLen(n) == (IF n < 65536 THEN 0 ELSE 16) + BitLen16(IF n < 65536 THEN n ELSE n \div 65536)

(* sg * q * 2^e, q < 2^Prec after rounding, or q = 2^Prec when the rounding carried *)
Carry(sg, q, e) ==
  IF q = 2^Prec THEN Fin(sg * 2^(Prec - 1), e + 1) ELSE Fin(sg * q, e)

(* sg * n * 2^e for n > 0 of L bits, rounded to Prec bits, nearest, ties to even:
   s = L - Prec bits are dropped when L > Prec. *)
Drop(sg, n, s, e) ==
  Carry(sg,
        IF n % 2^s > 2^(s - 1) \/ (n % 2^s = 2^(s - 1) /\ (n \div 2^s) % 2 = 1)
        THEN n \div 2^s + 1 ELSE n \div 2^s,
        e + s)
Round(sg, n, L, e) ==
  IF L <= Prec THEN Fin(sg * n * 2^(Prec - L), e - (Prec - L))
  ELSE Drop(sg, n, L - Prec, e)

(* The number m * 2^e rounded to Prec bits, nearest, ties to even. *)
Norm(m, e) == IF m = 0 THEN Zero ELSE Round(ISgn(m), IAbs(m), BitLen(IAbs(m)), e)

FromInt(n) == Norm(n, 0)

(* The numbers *)
Num == [c : {"fin", "nan", "inf"}, m : Int, e : Int]

IsNaN(a) == a.c = "nan"
IsInf(a) == a.c = "inf"
IsFin(a) == a.c = "fin"
IsZero(a) == a.c = "fin" /\ a.m = 0
(* -1, 0, 1: the sign of a number that is not NaN. *)
Sign(a) == ISgn(a.m)

Neg(a) == [a EXCEPT !.m = -a.m]
FAbs(a) == [a EXCEPT !.m = IAbs(a.m)]

Add(a, b) ==
  IF IsNaN(a) \/ IsNaN(b) THEN NaN
  ELSE IF IsInf(a) THEN (IF IsInf(b) /\ b.m # a.m THEN NaN ELSE a)
  ELSE IF IsInf(b) THEN b
  ELSE IF a.m = 0 THEN b
  ELSE IF b.m = 0 THEN a
  ELSE LET hi == IF a.e >= b.e THEN a ELSE b
           lo == IF a.e >= b.e THEN b ELSE a
           d == hi.e - lo.e
       IN IF d > Prec + 1 THEN hi
          ELSE Norm(hi.m * 2^d + lo.m, lo.e)

Sub(a, b) == Add(a, Neg(b))

Mul(a, b) ==
  IF IsNaN(a) \/ IsNaN(b) THEN NaN
  ELSE IF IsInf(a) \/ IsInf(b)
       THEN (IF a.m = 0 \/ b.m = 0 THEN NaN
             ELSE IF Sign(a) = Sign(b) THEN PInf ELSE NInf)
  ELSE Norm(a.m * b.m, a.e + b.e)

Div(a, b) ==
  IF IsNaN(a) \/ IsNaN(b) THEN NaN
  ELSE IF IsInf(a)
       THEN (IF IsInf(b) THEN NaN
             ELSE IF Sign(a) * (IF b.m < 0 THEN -1 ELSE 1) > 0 THEN PInf ELSE NInf)
  ELSE IF IsInf(b) THEN Zero
  ELSE IF b.m = 0
       THEN (IF a.m = 0 THEN NaN ELSE IF a.m > 0 THEN PInf ELSE NInf)
  ELSE LET n == IAbs(a.m) * 2^(Prec + 2)
           q == n \div IAbs(b.m)
           r == n % IAbs(b.m)
           qs == IF r # 0 /\ q % 2 = 0 THEN q + 1 ELSE q
       IN Norm(ISgn(a.m) * ISgn(b.m) * qs, a.e - b.e - (Prec + 2))

(* The integer square root of n, 0 <= n < 2^30, found bit by bit from 2^14 down. *)
SqrtBit(n, r, k) == IF (r + 2^k) * (r + 2^k) <= n THEN r + 2^k ELSE r
ISqrt(n) ==
  LET r14 == SqrtBit(n, 0, 14)
      r13 == SqrtBit(n, r14, 13)
      r12 == SqrtBit(n, r13, 12)
      r11 == SqrtBit(n, r12, 11)
      r10 == SqrtBit(n, r11, 10)
      r9 == SqrtBit(n, r10, 9)
      r8 == SqrtBit(n, r9, 8)
      r7 == SqrtBit(n, r8, 7)
      r6 == SqrtBit(n, r7, 6)
      r5 == SqrtBit(n, r6, 5)
      r4 == SqrtBit(n, r5, 4)
      r3 == SqrtBit(n, r4, 3)
      r2 == SqrtBit(n, r3, 2)
      r1 == SqrtBit(n, r2, 1)
  IN SqrtBit(n, r1, 0)

(* The root r of n = m * 2^s, made odd when it is not exact, so that Norm
   rounds the true root. *)
SqrtSticky(r, n, e) == Norm(IF r * r # n /\ r % 2 = 0 THEN r + 1 ELSE r, e)
SqrtScaled(m, e, s) == SqrtSticky(ISqrt(m * 2^s), m * 2^s, (e - s) \div 2)
Sqrt(a) ==
  IF IsNaN(a) THEN NaN
  ELSE IF IsInf(a) THEN (IF a.m > 0 THEN PInf ELSE NaN)
  ELSE IF a.m < 0 THEN NaN
  ELSE IF a.m = 0 THEN Zero
  ELSE SqrtScaled(a.m, a.e, IF (a.e - (Prec + 4)) % 2 = 0 THEN Prec + 4 ELSE Prec + 5)

(* Comparisons: every comparison with NaN is false. *)
Lt(a, b) == ~IsNaN(a) /\ ~IsNaN(b) /\ a # b /\ Sign(Sub(a, b)) < 0
Le(a, b) == ~IsNaN(a) /\ ~IsNaN(b) /\ (a = b \/ Sign(Sub(a, b)) < 0)
Gt(a, b) == Lt(b, a)
Ge(a, b) == Le(b, a)
(* === on numbers *)
Eq(a, b) == ~IsNaN(a) /\ ~IsNaN(b) /\ a = b

(* Math.min, Math.max: NaN when an argument is NaN. *)
Min(a, b) == IF IsNaN(a) \/ IsNaN(b) THEN NaN ELSE IF Le(a, b) THEN a ELSE b
Max(a, b) == IF IsNaN(a) \/ IsNaN(b) THEN NaN ELSE IF Ge(a, b) THEN a ELSE b

(* Math.hypot: Infinity when an argument is infinite, even beside a NaN. *)
Hypot2(a, b) ==
  IF IsInf(a) \/ IsInf(b) THEN PInf
  ELSE Sqrt(Add(Mul(a, a), Mul(b, b)))
Hypot3(a, b, c) ==
  IF IsInf(a) \/ IsInf(b) \/ IsInf(c) THEN PInf
  ELSE Sqrt(Add(Add(Mul(a, a), Mul(b, b)), Mul(c, c)))

Sq(a) == Mul(a, a)
(* Math.pow(a, 1.5) for a >= 0 *)
Pow15(a) == Mul(a, Sqrt(a))

(* A decimal literal p/q of the source, rounded to the model's precision. *)
Lit(p, q) == Div(FromInt(p), FromInt(q))

One == Fin(2^(Prec - 1), -(Prec - 1))
Two == Fin(2^(Prec - 1), -(Prec - 2))
PI == Lit(355, 113)

-----------------------------------------------------------------------------
(* ellipticKE: complete elliptic integrals K(m), E(m) by the AGM iteration *)

(* tol = 1e-14 is 45 units in the last place of 1.0 in binary64
   (1e-14 = 45.04 * 2^-52); the model keeps that distance. *)
tolUlps == 45
tol == Norm(tolUlps, -(Prec - 1))

(* if (m < 0 || m >= 1) throw *)
keThrows(m) == Lt(m, Zero) \/ Ge(m, One)

(* let a = 1; b = sqrt(1 - m); c = a - b; sum = 0; pow = 1 *)
keInit(m) ==
  LET b == Sqrt(Sub(One, m))
  IN [a |-> One, b |-> b, c |-> Sub(One, b), sum |-> Zero, pow |-> One]

(* while (Math.abs(c) > tol * a) *)
keCont(st) == Gt(FAbs(st.c), Mul(tol, st.a))

(* Fault variant of keStep: c = (a + b) / 2, a sign slip in the loop body. *)
keStepSignSlip(st) ==
  [a |-> Div(Add(st.a, st.b), Two), b |-> Sqrt(Mul(st.a, st.b)),
   c |-> Div(Add(st.a, st.b), Two),
   sum |-> Add(st.sum, Mul(Mul(st.pow, Div(Add(st.a, st.b), Two)), Div(Add(st.a, st.b), Two))),
   pow |-> Mul(st.pow, Two)]

(* the loop body *)
keStep(st) ==
  LET an == Div(Add(st.a, st.b), Two)
      bn == Sqrt(Mul(st.a, st.b))
      c == Div(Sub(st.a, st.b), Two)
  IN [a |-> an, b |-> bn, c |-> c,
      sum |-> Add(st.sum, Mul(Mul(st.pow, c), c)),
      pow |-> Mul(st.pow, Two)]

(* Fault variant of keResult: K = PI / a, the factor 2 forgotten. *)
keResultNoHalf(st) ==
  [K |-> Div(PI, st.a), E |-> Mul(Div(PI, st.a), Sub(One, st.sum))]

(* K = PI / (2 * a); E = K * (1 - sum) *)
keResult(st) ==
  LET K == Div(PI, Mul(Two, st.a))
  IN [K |-> K, E |-> Mul(K, Sub(One, st.sum))]

(* The state the loop ends in, started in st. *)
KeStates == [a : Num, b : Num, c : Num, sum : Num, pow : Num]
keLoop(st) ==
  LET loop[s \in KeStates] == IF keCont(s) THEN loop[keStep(s)] ELSE s
  IN loop[st]

NoKE == [K |-> NaN, E |-> NaN]
NoSt == [a |-> Zero, b |-> Zero, c |-> Zero, sum |-> Zero, pow |-> Zero]

(* The whole call: threw, or the pair returned. *)
ellipticKE(m) ==
  IF keThrows(m) THEN [threw |-> TRUE, KE |-> NoKE]
  ELSE [threw |-> FALSE, KE |-> keResult(keLoop(keInit(m)))]

(* 0 <= m < 1 *)
InUnit(m) == Ge(m, Zero) /\ Lt(m, One)

-----------------------------------------------------------------------------
(* The field of one circular loop *)

(* mu0 = 4 * Math.PI * 1e-7 *)
mu0 == Mul(Mul(FromInt(4), PI), Lit(1, 10000000))

(* The literal 1 - 1e-14 of the clamp: 1e-14 as in tol. *)
clampMax == Sub(One, tol)

Vec(a, b, c) == <<a, b, c>>
NoVec == Vec(NaN, NaN, NaN)

(* What one call of a loop routine did: the point and loop it was called with
   (at, a, I, N, zax), the branch taken, the number of calls of ellipticKE and
   the parameter m handed to it (off-axis branch only), whether it threw, and
   the vector returned. *)
LoopCall(at, a, I, N, zax, rho, branch, m, threw, B) ==
  [at |-> at, a |-> a, I |-> I, N |-> N, zax |-> zax, rho |-> rho,
   branch |-> branch, keCalls |-> IF branch = "off" THEN 1 ELSE 0,
   m |-> m, threw |-> threw, B |-> B]

(* if (rho === 0): bx = (mu0 * I * N * a * a) / (2 * Math.pow(a * a + zax * zax, 1.5)) *)
onAxisBx(a, I, N, zax2) ==
  Div(Mul(Mul(Mul(Mul(mu0, I), N), a), a),
      Mul(Two, Pow15(Add(Mul(a, a), zax2))))

(* The off-axis formulas after the call of ellipticKE, the same in both files:
   denom, factor, rho2, aMinusRho2, bRho, bX, cosPhi, sinPhi, bY, bZ. *)
offAxisB(zax, z2, yp, zp, a, rho, I, N, denom2, KE) ==
  LET denom == Sqrt(denom2)
      factor == Div(Mul(Mul(mu0, I), N), Mul(Mul(Two, PI), denom))
      rho2 == Mul(rho, rho)
      aMinusRho2 == Sq(Sub(a, rho))
      bRho == Mul(Mul(factor, Div(zax, rho)),
                  Add(Neg(KE.K),
                      Mul(Div(Add(Add(Mul(a, a), rho2), z2), Add(aMinusRho2, z2)), KE.E)))
      bX == Mul(factor,
                Add(KE.K,
                    Mul(Div(Sub(Sub(Mul(a, a), rho2), z2), Add(aMinusRho2, z2)), KE.E)))
      cosPhi == Div(yp, rho)
      sinPhi == Div(zp, rho)
  IN Vec(bX, Mul(bRho, cosPhi), Mul(bRho, sinPhi))

(* single_coil.js: the loop centred at the origin, m clamped to [0, 1 - 1e-14] *)
loopFieldMeters(x, y, z, R, I, N) ==
  LET rho == Hypot2(y, z)
      x2 == Mul(x, x)
      at == Vec(x, y, z)
  IN IF Eq(rho, Zero)
     THEN LoopCall(at, R, I, N, x, rho, "axis", NaN, FALSE,
                   Vec(onAxisBx(R, I, N, x2), Zero, Zero))
     ELSE LET denom2 == Add(Sq(Add(R, rho)), x2)
              kSqRaw == Div(Mul(Mul(FromInt(4), R), rho), denom2)
              kSq == Min(clampMax, Max(Zero, kSqRaw))
              ke == ellipticKE(kSq)
          IN IF ke.threw
             THEN LoopCall(at, R, I, N, x, rho, "off", kSq, TRUE, NoVec)
             ELSE LoopCall(at, R, I, N, x, rho, "off", kSq, FALSE,
                           offAxisB(x, x2, y, z, R, rho, I, N, denom2, ke.KE))

(* part_000: the loop of helmholtzField centred at x0 on the axis, m not clamped *)
loopField(xp, yp, zp, a, x0, I, N) ==
  LET rho == Hypot2(yp, zp)
      zax == Sub(xp, x0)
      z2 == Mul(zax, zax)
      at == Vec(xp, yp, zp)
  IN IF Eq(rho, Zero)
     THEN LoopCall(at, a, I, N, zax, rho, "axis", NaN, FALSE,
                   Vec(onAxisBx(a, I, N, z2), Zero, Zero))
     ELSE LET denom2 == Add(Sq(Add(a, rho)), z2)
              kSq == Div(Mul(Mul(FromInt(4), a), rho), denom2)
              ke == ellipticKE(kSq)
          IN IF ke.threw
             THEN LoopCall(at, a, I, N, zax, rho, "off", kSq, TRUE, NoVec)
             ELSE LoopCall(at, a, I, N, zax, rho, "off", kSq, FALSE,
                           offAxisB(zax, z2, yp, zp, a, rho, I, N, denom2, ke.KE))

VecAdd(u, v) == Vec(Add(u[1], v[1]), Add(u[2], v[2]), Add(u[3], v[3]))
VecMag(u) == Hypot3(u[1], u[2], u[3])

(* The calls made until one throws: a call is made only if none before it threw. *)
Made(calls) ==
  SubSeq(calls, 1,
         IF \E i \in 1..Len(calls) : calls[i].threw
         THEN CHOOSE i \in 1..Len(calls) :
                calls[i].threw /\ \A j \in 1..(i - 1) : ~calls[j].threw
         ELSE Len(calls))

cm == Lit(1, 100)

(* helmholtzField: two loops at -R/2 and +R/2 ... *)
hhCenters(R) == <<Div(Neg(R), Two), Div(R, Two)>>
(* ... summed from [0, 0, 0] *)
hhSum(calls) ==
  [threw |-> calls[Len(calls)].threw,
   loops |-> calls,
   B |-> IF calls[Len(calls)].threw THEN NoVec
         ELSE VecAdd(VecAdd(Vec(Zero, Zero, Zero), calls[1].B), calls[2].B)]
helmholtzField(x_cm, y_cm, z_cm, R_cm, V, Omega, N) ==
  hhSum(Made([i \in 1..2 |->
                loopField(Mul(x_cm, cm), Mul(y_cm, cm), Mul(z_cm, cm), Mul(R_cm, cm),
                          hhCenters(Mul(R_cm, cm))[i], Div(V, Omega), N)]))

(* R * 1e-4 || 0 *)
OrZero(v) == IF IsNaN(v) \/ IsZero(v) THEN Zero ELSE v

(* Fault variant of gradStep: the floor 1e-5 forgotten. *)
gradStepNoFloor(R) == OrZero(Mul(R, Lit(1, 10000)))

(* h = Math.max(1e-5, R * 1e-4 || 0) *)
gradStep(R) == Max(Lit(1, 100000), OrZero(Mul(R, Lit(1, 10000))))

(* The six offsets of magAt, in the order of evaluation. *)
gradOffsets(h) ==
  <<Vec(h, Zero, Zero), Vec(Neg(h), Zero, Zero),
    Vec(Zero, h, Zero), Vec(Zero, Neg(h), Zero),
    Vec(Zero, Zero, h), Vec(Zero, Zero, Neg(h))>>

(* fieldAt(x, y, z) and then magAt at the six offsets *)
fieldCalls(x, y, z, R, I, N, d) ==
  [i \in 1..7 |->
     IF i = 1 THEN loopFieldMeters(x, y, z, R, I, N)
     ELSE loopFieldMeters(Add(x, d[i - 1][1]), Add(y, d[i - 1][2]),
                          Add(z, d[i - 1][3]), R, I, N)]

(* B, Bmag and the central differences of |B| from the calls made *)
gradResult(calls, h) ==
  LET threw == calls[Len(calls)].threw
      mag(i) == VecMag(calls[i].B)
      grad(i) == Div(Sub(mag(2 * i), mag(2 * i + 1)), Mul(Two, h))
  IN [threw |-> threw,
      loops |-> calls,
      h |-> h,
      B |-> IF threw THEN NoVec ELSE calls[1].B,
      Bmag |-> IF threw THEN NaN ELSE mag(1),
      grad |-> IF threw THEN NoVec ELSE Vec(grad(1), grad(2), grad(3))]

(* coilFieldWithGrad: the field at the point and the gradient of |B| with step h *)
coilWithStep(x, y, z, R, I, N, h) ==
  gradResult(Made(fieldCalls(x, y, z, R, I, N, gradOffsets(h))), h)
coilFieldWithGrad(x_cm, y_cm, z_cm, R_cm, I, N) ==
  coilWithStep(Mul(x_cm, cm), Mul(y_cm, cm), Mul(z_cm, cm), Mul(R_cm, cm), I, N,
               gradStep(Mul(R_cm, cm)))

-----------------------------------------------------------------------------
(* The two pages: input texts, the click handlers, the output and error texts *)

Fields == {"x", "y", "z", "R", "IV", "omega", "N"}

(* The texts an input element holds in the model.  "IV" is sc-I on the
   single-coil page and hh-V on the Helmholtz page.  The texts of PlainTexts
   combine freely; those of OddTexts (empty, non-finite, not positive, not an
   integer) are held by at most MaxOdd elements at a time. *)
PlainTexts(f) ==
  CASE f = "x" -> {"0", "5", "0.001"}
    [] f = "y" -> {"0", "10"}
    [] f = "z" -> {"0", "4"}
    [] f = "R" -> {"10", "0.001", "Infinity"}
    [] f = "IV" -> {"1"}
    [] f = "omega" -> {"10"}
    [] f = "N" -> {"100"}
OddTexts(f) ==
  CASE f \in {"x", "y", "z", "IV"} -> {"", "Infinity"}
    [] f = "R" -> {"", "0", "-1"}
    [] f = "omega" -> {"", "Infinity", "0", "-1"}
    [] f = "N" -> {"", "Infinity", "0", "-1", "2.5"}
Texts(f) == PlainTexts(f) \cup OddTexts(f)

(* At most MaxOdd input elements hold a text of OddTexts at a time. *)
MaxOdd == 1
OddCount(fm) == Cardinality({f \in Fields : fm[f] \in OddTexts(f)})

(* The integer a decimal text of the model starts with. *)
LeadingInt(t) ==
  CASE t = "0" -> 0
    [] t = "1" -> 1
    [] t = "4" -> 4
    [] t = "5" -> 5
    [] t = "10" -> 10
    [] t = "100" -> 100
    [] t = "-1" -> -1
    [] t = "2.5" -> 2

(* parseFloat: NaN for a text that starts with no number *)
parseFloat(t) ==
  CASE t = "" -> NaN
    [] t = "Infinity" -> PInf
    [] t = "-Infinity" -> NInf
    [] t = "2.5" -> Lit(5, 2)
    [] t = "0.001" -> Lit(1, 1000)
    [] OTHER -> FromInt(LeadingInt(t))

(* parseInt(t, 10): the leading integer digits only, NaN when there are none *)
parseInt(t) ==
  CASE t = "" -> NaN
    [] t = "Infinity" -> NaN
    [] t = "-Infinity" -> NaN
    [] OTHER -> FromInt(LeadingInt(t))

(* The seven numbers a click reads from the inputs. *)
readInputs(fm) ==
  [x |-> parseFloat(fm.x), y |-> parseFloat(fm.y), z |-> parseFloat(fm.z),
   R |-> parseFloat(fm.R), IV |-> parseFloat(fm.IV),
   omega |-> parseFloat(fm.omega), N |-> parseInt(fm.N)]

(* The messages (ASCII renderings of the source's texts). *)
MsgFill == "fill in all inputs"
MsgR == "R must be greater than 0"
MsgOmega == "resistance must be greater than 0"
MsgN == "turn count N must be a positive integer"
MsgDomain == "parameter m must be in [0, 1)"
MsgCalc == "calculation failed"
NoMsg == ""

(* Fault variant of validate: the check of N forgotten. *)
validateNoN(v) ==
  IF \E f \in Fields : IsNaN(v[f]) THEN MsgFill
  ELSE IF Le(v.R, Zero) THEN MsgR
  ELSE IF Le(v.omega, Zero) THEN MsgOmega
  ELSE NoMsg

(* The message of the first validation check that fails, NoMsg when none does. *)
validate(v) ==
  IF \E f \in Fields : IsNaN(v[f]) THEN MsgFill
  ELSE IF Le(v.R, Zero) THEN MsgR
  ELSE IF Le(v.omega, Zero) THEN MsgOmega
  ELSE IF Le(v.N, Zero) THEN MsgN
  ELSE NoMsg

(* showError(msg): msg || "" *)
showError(msg) == IF msg = NoMsg THEN "" ELSE msg

(* catch (err): showError(err.message || <calculation failed>) *)
catchMessage(msg) == showError(IF msg = NoMsg THEN MsgCalc ELSE msg)

(* toSci: "NaN" for a number that is not finite, else toExponential(6), which
   keeps 7 significant decimal digits: more than Prec bits hold, so the text of
   a finite number of the model determines it, and stands here as the number. *)
toSci(num) == IF ~IsFin(num) THEN NaN ELSE num

NoText == <<>>
NoRun == [kind |-> "none", fieldCalls |-> 0, loops |-> <<>>, res |-> <<>>]

(* Fault variant of Rejected: the early return without showError(msg). *)
RejectedSilent(msg) ==
  [err |-> showError(""), wrote |-> FALSE, text |-> NoText,
   run |-> [kind |-> "rejected", fieldCalls |-> 0, loops |-> <<>>, res |-> <<>>]]

(* What a click does: the text it leaves in the error element, whether it
   assigns the output element and with what, and the record of what ran.
   kind: "rejected" by validation, "threw" in the computation, "ok" when the
   result was written. *)
Rejected(msg) ==
  [err |-> showError(msg), wrote |-> FALSE, text |-> NoText,
   run |-> [kind |-> "rejected", fieldCalls |-> 0, loops |-> <<>>, res |-> <<>>]]
Threw(r) ==
  [err |-> catchMessage(MsgDomain), wrote |-> FALSE, text |-> NoText,
   run |-> [kind |-> "threw", fieldCalls |-> 1, loops |-> r.loops, res |-> <<>>]]
Wrote(r, text) ==
  [err |-> showError(""), wrote |-> TRUE, text |-> text,
   run |-> [kind |-> "ok", fieldCalls |-> 1, loops |-> r.loops, res |-> <<r>>]]

(* single_coil.js, the click listener *)
scText(r, voltage) ==
  <<toSci(r.B[1]), toSci(r.B[2]), toSci(r.B[3]), toSci(r.Bmag),
    toSci(r.grad[1]), toSci(r.grad[2]), toSci(r.grad[3]), toSci(voltage)>>
scTry(r, voltage) == IF r.threw THEN Threw(r) ELSE Wrote(r, scText(r, voltage))
scRun(v) ==
  IF validate(v) # NoMsg THEN Rejected(validate(v))
  ELSE scTry(coilFieldWithGrad(v.x, v.y, v.z, v.R, v.IV, v.N), Mul(v.IV, v.omega))
scClick(fm) == scRun(readInputs(fm))

(* part_000, the click listener *)
hhText(r) == <<toSci(r.B[1]), toSci(r.B[2]), toSci(r.B[3]), toSci(VecMag(r.B))>>
hhTry(r) == IF r.threw THEN Threw(r) ELSE Wrote(r, hhText(r))
hhRun(v) ==
  IF validate(v) # NoMsg THEN Rejected(validate(v))
  ELSE hhTry(helmholtzField(v.x, v.y, v.z, v.R, v.IV, v.omega, v.N))
hhClick(fm) == hhRun(readInputs(fm))

(* The forms of the model: every input holds a text of PlainTexts, but for
   at most MaxOdd inputs, which hold any of their texts. *)
PlainForms ==
  [x : PlainTexts("x"), y : PlainTexts("y"), z : PlainTexts("z"),
   R : PlainTexts("R"), IV : PlainTexts("IV"), omega : PlainTexts("omega"),
   N : PlainTexts("N")]
FormsUpTo[k \in 0..MaxOdd] ==
  IF k = 0 THEN PlainForms
  ELSE UNION {{[fm EXCEPT ![f] = t] : t \in Texts(f)} :
                fm \in FormsUpTo[k - 1], f \in Fields}
Forms == FormsUpTo[MaxOdd]

(* What a click on each form does. *)
Pages == {"sc", "hh"}
clicked == [p \in Pages, fm \in Forms |-> IF p = "sc" THEN scClick(fm) ELSE hhClick(fm)]

-----------------------------------------------------------------------------
(* ellipticKE run statement by statement on the arguments of KeInputs *)

KeGrid == 32
(* The largest number below 1. *)
BelowOne == Fin(2^Prec - 1, -Prec)
KeInputs ==
  {Lit(k, KeGrid) : k \in (-KeGrid)..(2 * KeGrid)}
    \cup {NaN, PInf, NInf, BelowOne, Sub(One, tol), Neg(tol), Lit(999, 1000)}

InitUI ==
  /\ page \in Pages
  /\ form = [x |-> "0", y |-> "0", z |-> "0", R |-> "10", IV |-> "1",
             omega |-> "10", N |-> "100"]
  /\ out = NoText
  /\ err = ""
  /\ run = NoRun
  /\ last = "none"

InitKE ==
  /\ kePc = "idle"
  /\ keM = Zero
  /\ keSt = NoSt
  /\ keIter = 0
  /\ keOut = NoKE
  /\ InitUI

KECall(m) ==
  /\ kePc = "idle"
  /\ keM' = m
  /\ keIter' = 0
  /\ keOut' = NoKE
  /\ IF keThrows(m)
     THEN kePc' = "threw" /\ keSt' = NoSt
     ELSE kePc' = "loop" /\ keSt' = keInit(m)
  /\ UNCHANGED uiVars

KELoop ==
  /\ kePc = "loop"
  /\ keCont(keSt)
  /\ keIter <= 100
  /\ keSt' = keStep(keSt)
  /\ keIter' = keIter + 1
  /\ UNCHANGED <<kePc, keM, keOut, uiVars>>

KEReturn ==
  /\ kePc = "loop"
  /\ ~keCont(keSt)
  /\ kePc' = "done"
  /\ keOut' = keResult(keSt)
  /\ UNCHANGED <<keM, keSt, keIter, uiVars>>

KEIdle ==
  /\ kePc \in {"done", "threw"}
  /\ kePc' = "idle"
  /\ keM' = Zero
  /\ keSt' = NoSt
  /\ keIter' = 0
  /\ keOut' = NoKE
  /\ UNCHANGED uiVars

NextKE ==
  \/ \E m \in KeInputs : KECall(m)
  \/ KELoop
  \/ KEReturn
  \/ KEIdle

SpecKE == InitKE /\ [][NextKE]_vars

-----------------------------------------------------------------------------
(* The pages *)

(* The user changes the text of one input element. *)
Edit(f, t) ==
  /\ form[f] # t
  /\ OddCount([form EXCEPT ![f] = t]) <= MaxOdd
  /\ form' = [form EXCEPT ![f] = t]
  /\ run' = NoRun
  /\ UNCHANGED <<page, out, err, last>>

(* The user clicks the run button: the whole listener runs.  It starts with
   showError(""), and every path sets the error text again or leaves it empty. *)
Listener(c) ==
  /\ err' = c.err
  /\ out' = IF c.wrote THEN c.text ELSE out
  /\ run' = c.run
  /\ last' = IF c.run.kind = "ok" THEN "ok" ELSE "rejected"
  /\ UNCHANGED <<page, form>>
Click == Listener(clicked[page, form])

Init ==
  /\ InitUI
  /\ kePc = "idle"
  /\ keM = Zero
  /\ keSt = NoSt
  /\ keIter = 0
  /\ keOut = NoKE

Next ==
  \/ \E f \in Fields : \E t \in Texts(f) : Edit(f, t) /\ UNCHANGED keVars
  \/ Click /\ UNCHANGED keVars

Spec == Init /\ [][Next]_vars

-----------------------------------------------------------------------------
(* Properties of the click handlers, under Spec *)

(* The numbers the listener read from the form as it stands, and the state
   "the listener has just run on this form" (an edit resets run). *)
Read == readInputs(form)
Clicked == run.kind # "none"
Computed == run.fieldCalls = 1
AllFinite == \A f \in Fields : IsFin(Read[f])
Calls == 1..Len(run.loops)

(* An input the validation is to reject: a field that is not a number, or
   R <= 0, Omega <= 0, N <= 0. *)
BadInput ==
  \/ \E f \in Fields : IsNaN(Read[f])
  \/ Le(Read.R, Zero)
  \/ Le(Read.omega, Zero)
  \/ Le(Read.N, Zero)

(* C1: on both pages a click on an input with a field that is not a number,
   or with R <= 0, Omega <= 0 or N <= 0, is rejected with a non-empty error
   message, and neither coilFieldWithGrad / helmholtzField nor any loop
   routine (so no ellipticKE) was called. *)
C1_RejectedBeforeCompute ==
  Clicked /\ BadInput =>
    /\ run.kind = "rejected"
    /\ run.fieldCalls = 0
    /\ run.loops = <<>>
    /\ err # ""
    /\ last = "rejected"

C1_RejectedClicks ==
  /\ page = "hh"
  /\ form.N = "-1"
  /\ run.kind = "rejected"
  /\ err = MsgN

(* C2: for every finite input that passed validation, every m handed to
   ellipticKE by a loop routine lies in [0, 1) and ellipticKE does not throw,
   on both pages. *)
C2_ParameterInUnit ==
  Clicked /\ AllFinite =>
    \A i \in Calls :
      run.loops[i].branch = "off" => InUnit(run.loops[i].m) /\ ~run.loops[i].threw

(* The Helmholtz page at a point on the wire of the loop at +R/2: m = 1. *)
C2_OnWireThrows ==
  /\ page = "hh"
  /\ AllFinite
  /\ run.kind = "threw"
  /\ Len(run.loops) = 2
  /\ run.loops[2].m = One
  /\ IsZero(run.loops[2].zax)
  /\ run.loops[2].rho = run.loops[2].a

(* C3: for every finite input that passed validation helmholtzField returns,
   and what it returns is the componentwise sum of two loopField results at the
   same point with the same R (in meters), I = V / Omega and N, the first with
   axial offset -R/2 and the second with +R/2. *)
C3_Superposition ==
  page = "hh" /\ Computed /\ AllFinite =>
    /\ run.kind = "ok"
    /\ Len(run.loops) = 2
    /\ \A i \in Calls :
         /\ run.loops[i].at = Vec(Mul(Read.x, cm), Mul(Read.y, cm), Mul(Read.z, cm))
         /\ run.loops[i].a = Mul(Read.R, cm)
         /\ run.loops[i].I = Div(Read.IV, Read.omega)
         /\ run.loops[i].N = Read.N
    /\ run.loops[1].zax = Sub(Mul(Read.x, cm), Div(Neg(Mul(Read.R, cm)), Two))
    /\ run.loops[2].zax = Sub(Mul(Read.x, cm), Div(Mul(Read.R, cm), Two))
    /\ run.res[1].B = VecAdd(VecAdd(Vec(Zero, Zero, Zero), run.loops[1].B), run.loops[2].B)

(* helmholtzField threw instead of returning a sum. *)
C3_NoSumReturned ==
  /\ page = "hh"
  /\ Computed
  /\ AllFinite
  /\ run.kind = "threw"
  /\ run.res = <<>>
  /\ ~run.loops[1].threw

(* C4: a click with a non-finite number among its inputs is rejected: no field
   computation runs and the output is not written. *)
C4_NonFiniteRejected ==
  Clicked /\ ~AllFinite =>
    /\ run.kind = "rejected"
    /\ run.fieldCalls = 0
    /\ err # ""

(* x = Infinity was accepted, the field computed and the output written. *)
C4_InfinityAccepted ==
  /\ form.x = "Infinity"
  /\ run.kind = "ok"
  /\ Computed
  /\ err = ""
  /\ out # NoText


(* The closed form of the on-axis branch for the loop and point of call c. *)
AxisBx(c) ==
  Div(Mul(Mul(Mul(Mul(mu0, c.I), c.N), c.a), c.a),
      Mul(Two, Pow15(Add(Mul(c.a, c.a), Mul(c.zax, c.zax)))))
OnAxisPoint == Eq(Hypot2(Mul(Read.y, cm), Mul(Read.z, cm)), Zero)

(* C8: a loop routine called with rho = hypot(y, z) exactly 0 takes the
   on-axis branch and returns [mu0 I N R^2 / (2 (R^2 + zax^2)^1.5), 0, 0]
   without calling ellipticKE; the off-axis branch is entered with rho > 0
   only; and at a point of the axis helmholtzField returns By = Bz = 0, both
   loops having taken the on-axis branch. *)
C8_OnAxisBranch ==
  /\ \A i \in Calls :
       /\ Eq(Hypot2(run.loops[i].at[2], run.loops[i].at[3]), Zero) =>
            /\ run.loops[i].branch = "axis"
            /\ run.loops[i].keCalls = 0
            /\ run.loops[i].B = Vec(AxisBx(run.loops[i]), Zero, Zero)
       /\ run.loops[i].branch = "off" =>
            /\ Gt(run.loops[i].rho, Zero)
            /\ run.loops[i].keCalls = 1
  /\ page = "hh" /\ Computed /\ OnAxisPoint =>
       /\ run.kind = "ok"
       /\ \A i \in Calls : run.loops[i].branch = "axis"
       /\ run.res[1].B[2] = Zero
       /\ run.res[1].B[3] = Zero

(* R = Infinity and y = Infinity were accepted: h is infinite, y - h is NaN,
   and the call at that point took the off-axis branch with rho = NaN. *)
C8_OffAxisWithNaN ==
  /\ page = "sc"
  /\ run.kind = "ok"
  /\ form.R = "Infinity"
  /\ form.y = "Infinity"
  /\ Len(run.loops) = 7
  /\ run.loops[5].branch = "off"
  /\ IsNaN(run.loops[5].rho)

(* The point, radius and step of the single-coil page for the form as it
   stands, and the point moved by d along axis k. *)
PointM == Vec(Mul(Read.x, cm), Mul(Read.y, cm), Mul(Read.z, cm))
StepH == Max(Lit(1, 100000), Mul(Mul(Read.R, cm), Lit(1, 10000)))
Moved(k, d) == [PointM EXCEPT ![k] = Add(PointM[k], d)]
MagOf(i) == VecMag(run.loops[i].B)

(* C9: coilFieldWithGrad calls the loop routine exactly 7 times: at the point,
   then at the point moved by +h and by -h along x, y and z, with
   h = max(1e-5, R * 1e-4) for R in meters; all seven calls have the same R, I
   and N; B is the result of the call at the point itself and Bmag = |B|
   (neither involves h); and each gradient component is
   (|B(p + h e_k)| - |B(p - h e_k)|) / (2 h). *)
C9_SevenCalls ==
  page = "sc" /\ Computed =>
    /\ run.kind = "ok"
    /\ Len(run.loops) = 7
    /\ run.res[1].h = StepH
    /\ run.loops[1].at = PointM
    /\ \A k \in 1..3 :
         /\ run.loops[2 * k].at = Moved(k, StepH)
         /\ run.loops[2 * k + 1].at = Moved(k, Neg(StepH))
         /\ run.res[1].grad[k] =
              Div(Sub(MagOf(2 * k), MagOf(2 * k + 1)), Mul(Two, StepH))
    /\ \A i \in Calls :
         /\ run.loops[i].a = Mul(Read.R, cm)
         /\ run.loops[i].I = Read.IV
         /\ run.loops[i].N = Read.N
    /\ run.res[1].B = run.loops[1].B
    /\ run.res[1].Bmag = VecMag(run.loops[1].B)

(* A small loop, so that h is the floor 1e-5, and a point of its axis at
   about h from its plane: |B| falls along x. *)
C9_FloorStep ==
  /\ page = "sc"
  /\ run.kind = "ok"
  /\ form.R = "0.001"
  /\ form.x = "0.001"
  /\ AllFinite
  /\ Len(run.loops) = 7
  /\ run.res[1].h = Lit(1, 100000)
  /\ Gt(run.res[1].Bmag, Zero)
  /\ Lt(run.res[1].grad[1], Zero)

(* The text an accepted click writes, from the result it computed. *)
TextOf(p, r, v) == IF p = "sc" THEN scText(r, Mul(v.IV, v.omega)) ELSE hhText(r)

(* C10: on both pages every click that is accepted leaves the error text empty
   and overwrites the output text with its result; every click that is
   rejected, by validation or by an exception of the computation, leaves a
   non-empty error text and the output text as it was; so at all times the
   error text is non-empty iff the most recent click was rejected. *)
C10_ClickFrame ==
  /\ [](err # "" <=> last = "rejected")
  /\ [][run' # NoRun =>
          /\ run'.kind = "ok" =>
               /\ err' = ""
               /\ last' = "ok"
               /\ out' = TextOf(page, run'.res[1], readInputs(form))
          /\ run'.kind # "ok" =>
               /\ err' # ""
               /\ last' = "rejected"
               /\ out' = out]_vars

(* A stale result displayed next to the error of a later, rejected click. *)
C10_StaleResult ==
  /\ last = "rejected"
  /\ run.kind = "threw"
  /\ err # ""
  /\ out # NoText

-----------------------------------------------------------------------------
(* Properties of ellipticKE, under SpecKE *)

KeCalled == kePc \in {"loop", "done", "threw"}

(* C5: ellipticKE throws for every m that does not satisfy 0 <= m < 1, NaN
   included, before any iteration and without returning a pair. *)
C5_ThrowsOutsideUnit ==
  KeCalled /\ ~InUnit(keM) => kePc = "threw" /\ keIter = 0 /\ keOut = NoKE

(* ellipticKE(NaN) returned a pair. *)
C5_NaNReturns ==
  /\ kePc = "done"
  /\ IsNaN(keM)
  /\ keIter = 0
  /\ keOut.K = Div(PI, Two)

(* C6: ellipticKE(0) starts with a = 1, b = 1, c = 0, sum = 0, runs the loop
   body zero times and returns K = pi / 2, E = pi / 2. *)
C6_KEAtZero ==
  keM = Zero /\ kePc \in {"loop", "done"} =>
    /\ keSt.a = One
    /\ keSt.b = One
    /\ keSt.c = Zero
    /\ keSt.sum = Zero
    /\ keIter = 0
    /\ ~keCont(keSt)
    /\ kePc = "done" => keOut.K = Div(PI, Two) /\ keOut.E = Div(PI, Two)

C6_ZeroReturned ==
  /\ kePc = "done"
  /\ keM = Zero
  /\ keIter = 0
  /\ keOut = [K |-> Div(PI, Two), E |-> Div(PI, Two)]

(* C7: for 0 <= m < 1 the loop of ellipticKE ends, and it ends within 100
   iterations: the count never passes 100, and after 100 iterations the exit
   condition |c| <= tol * a holds. *)
C7_LoopBounded ==
  kePc = "loop" /\ InUnit(keM) =>
    /\ keIter <= 100
    /\ keIter = 100 => ~keCont(keSt)

(* A call that went round the loop several times and returned. *)
C7_LoopEnded ==
  /\ kePc = "done"
  /\ InUnit(keM)
  /\ keIter >= 3
  /\ ~keCont(keSt)

====
